---- MODULE Spec2Model ----
(***************************************************************************)
(* A model of the Biblatex scripts:                                        *)
(*   crossrefs.py           validation and expansion of crossref fields    *)
(*   convertbibliography.py the per-record normalisers and their pipeline  *)
(*   fixbibliography.py     fix_keys, dummy keys for entries without one   *)
(*                                                                         *)
(* A record is a Python dict.  Its iteration order is its insertion order, *)
(* and crossrefs.py's expansion depends on that order, so a record is      *)
(* modelled as [keys |-> <<field names in insertion order>>,               *)
(*              val  |-> [field name |-> value]].                          *)
(***************************************************************************)
EXTENDS Integers, Sequences, FiniteSets, TLC

VARIABLES
    pc,           \* position of the running script or function
    err,          \* the exception that ended the run, or "none"
    \* crossrefs.py
    entries,      \* entries_dict, citation key -> record
    orig,         \* entries as parsed (history, never read by the program)
    expand,       \* args.expand
    idx,          \* index of the loop over the entries
    crossrefs,    \* the set of consumed keys
    diags,        \* the lines printed so far
    bibfile,      \* the entries the bibliography file holds
    errAt,        \* the entry being processed when the run was ended
    \* convertbibliography.py
    record,       \* the record being customised
    input,        \* the record as it was passed in (history)
    first,        \* the record after the first application (history)
    before,       \* the record before the last step (history)
    applied,      \* how many applications have finished
    step,         \* the next step of customizations
    outcome,      \* what the CrossRef API did at the last get_doi
    \* fixbibliography.py
    l,            \* fix_keys: the list of lines
    l0,           \* the list as it was passed in (history)
    i,            \* fix_keys: the number of the next dummy key
    j             \* fix_keys: the index of the next line (from 0)

crossVars == <<entries, orig, expand, idx, crossrefs, diags, bibfile, errAt>>

convVars == <<record, input, first, before, applied, step, outcome>>

fixVars == <<l, l0, i, j>>

vars == <<pc, err, crossVars, convVars, fixVars>>

-----------------------------------------------------------------------------
(* Python dicts and lists *)

Range(s) == {s[n] : n \in 1..Len(s)}

Has(r, f) == f \in DOMAIN r.val

\* d[f] = v: an existing key keeps its place, a new key goes last
Set(r, f, v) ==
    IF Has(r, f)
    THEN [keys |-> r.keys, val |-> [r.val EXCEPT ![f] = v]]
    ELSE [keys |-> Append(r.keys, f),
          val  |-> [g \in DOMAIN r.val \cup {f} |-> IF g = f THEN v ELSE r.val[g]]]

\* del d[f]
Del(r, f) ==
    [keys |-> SelectSeq(r.keys, LAMBDA g : g # f),
     val  |-> [g \in DOMAIN r.val \ {f} |-> r.val[g]]]

-----------------------------------------------------------------------------
(* crossrefs.py *)

entry_types_to_reference_types ==
    [inbook        |-> <<"book", "mvbook">>,
     incollection  |-> <<"collection", "mvcollection">>,
     inproceedings |-> <<"proceedings">>]

\* sorted([key for key in entry_types_to_reference_types])
crossref_types == <<"inbook", "incollection", "inproceedings">>

RECURSIVE JoinStr(_, _)
\* sep.join(strings)
JoinStr(strings, sep) ==
    IF Len(strings) = 0 THEN ""
    ELSE IF Len(strings) = 1 THEN strings[1]
    ELSE strings[1] \o sep \o JoinStr(Tail(strings), sep)

make_list_no_delimiter(strings, delimiter) ==
    IF Len(strings) = 1 THEN strings[1]
    ELSE JoinStr(strings, ", ")

\* make_list is never called with an empty list (strings[-1] would raise)
make_list(strings, delimiter) ==
    IF Len(strings) = 1 THEN strings[1]
    ELSE IF Len(strings) = 2
         THEN strings[1] \o " " \o delimiter \o " " \o strings[2]
    ELSE JoinStr(SubSeq(strings, 1, Len(strings) - 1), ", ")
             \o ", " \o delimiter \o " " \o strings[Len(strings)]

not_found_message(entry_crossref, entry_id) ==
    entry_crossref \o " referenced by " \o entry_id \o " was not found."

mismatch_message(entry_crossref, entry_id, entry_crossref_type, allowed_types) ==
    "The type of " \o entry_crossref \o " referenced by " \o entry_id
        \o " is " \o entry_crossref_type \o ". It should probably be "
        \o make_list(allowed_types, "or") \o "."

unexpected_message(entry_id, entry_type) ==
    "The type of " \o entry_id \o " is " \o entry_type
        \o ". That's not one of the types expected to have a crossref, which are: "
        \o make_list(crossref_types, "or") \o "."

\* what one iteration of the validation loop prints, in order
validation_messages(es, entry) ==
    IF ~Has(es[entry], "crossref") THEN <<>>
    ELSE
      LET entry_crossref == es[entry].val["crossref"]
          entry_id       == es[entry].val["id"]
          entry_type     == es[entry].val["type"]
          target ==
            IF entry_crossref \notin DOMAIN es
            THEN <<not_found_message(entry_crossref, entry_id)>>
            ELSE IF entry_type \in DOMAIN entry_types_to_reference_types
                 THEN LET allowed_types == entry_types_to_reference_types[entry_type]
                          entry_crossref_type == es[entry_crossref].val["type"]
                      IN  IF entry_crossref_type \notin Range(allowed_types)
                          THEN <<mismatch_message(entry_crossref, entry_id,
                                                  entry_crossref_type, allowed_types)>>
                          ELSE <<>>
                 ELSE <<>>
          own ==
            IF entry_type \notin Range(crossref_types)
            THEN <<unexpected_message(entry_id, entry_type)>>
            ELSE <<>>
      IN target \o own

leave_without_doi ==
    <<"id", "type", "read", "bdsk-file-1", "date-added", "date-modified">>

leave ==
    <<"id", "type", "read", "bdsk-file-1", "doi", "date-added", "date-modified">>

\* the body of the loop over the fields of the referenced record, for one field
copy_field(r, t, field) ==
    IF field = "title" THEN Set(r, "booktitle", t.val["title"])
    ELSE IF field = "subtitle" THEN Set(r, "booksubtitle", t.val["subtitle"])
    ELSE IF field \in Range(leave) THEN r
    ELSE Set(r, field, t.val[field])

RECURSIVE copy_fields(_, _, _)
\* the loop over the fields of t, a record other than r, from the n-th on
copy_fields(r, t, n) ==
    IF n > Len(t.keys) THEN r
    ELSE copy_fields(copy_field(r, t, t.keys[n]), t, n + 1)

RECURSIVE copy_self(_, _)
\* The same loop when the record references itself: the dict it iterates is
\* the dict it writes.  An assignment that adds a key changes the dict's
\* size, and the iterator's next step raises RuntimeError.
\* [rec |-> the record, raised |-> whether the iteration raised]
copy_self(r, n) ==
    IF n > Len(r.keys) THEN [rec |-> r, raised |-> FALSE]
    ELSE LET r2 == copy_field(r, r, r.keys[n])
         IN  IF Len(r2.keys) # Len(r.keys)
             THEN [rec |-> r2, raised |-> TRUE]
             ELSE copy_self(r2, n + 1)

-----------------------------------------------------------------------------
(* The parsed bibliography the run starts from *)

\* at most this many entries carry a crossref field
MaxRefs == 2

Keys == {"k1", "k2", "k3"}

\* the insertion order of entries_dict: the order of the entries in the file
order == <<"k1", "k2", "k3">>

\* a crossref value that names no entry
Missing == "zz"

NoRef == "-"

Types ==
    {"inbook", "incollection", "inproceedings", "book", "mvbook",
     "collection", "mvcollection", "proceedings", "article"}

\* the fields of an entry other than crossref, in the order of the file
Shapes ==
    { <<>>,
      <<"title", "publisher", "doi">>,
      <<"publisher", "doi">>,
      <<"title", "subtitle", "doi">>,
      <<"title", "booktitle">>,
      <<"booktitle", "title", "publisher">>,
      <<"booksubtitle", "subtitle", "title">>,
      <<"subtitle", "booksubtitle">> }

RefMaps ==
    {m \in [Keys -> Keys \cup {Missing, NoRef}] :
        Cardinality({k \in Keys : m[k] # NoRef}) <= MaxRefs}

\* The parser stores the fields in file order, then type and id.  Every value
\* of a field names the entry and the field it was written on.
MkRecord(k, t, ref, shape) ==
    LET ks == shape \o (IF ref = NoRef THEN <<>> ELSE <<"crossref">>)
                    \o <<"type", "id">>
    IN  [keys |-> ks,
         val  |-> [f \in Range(ks) |->
                     IF f = "id" THEN k
                     ELSE IF f = "type" THEN t
                     ELSE IF f = "crossref" THEN ref
                     ELSE k \o "." \o f]]

\* entries of every type, carrying no field but crossref
TypedBibliographies ==
    {[k \in Keys |-> MkRecord(k, ty[k], m[k], <<>>)] :
        ty \in [Keys -> Types], m \in RefMaps}

\* entries with fields, of type inbook when they carry a crossref, else book
FieldBibliographies ==
    {[k \in Keys |-> MkRecord(k, IF m[k] = NoRef THEN "book" ELSE "inbook",
                              m[k], sh[k])] :
        sh \in [Keys -> Shapes], m \in RefMaps}

\* crossrefs.py is not running
CrossIdle ==
    /\ entries = <<>>
    /\ orig = <<>>
    /\ expand = FALSE
    /\ idx = 0
    /\ crossrefs = {}
    /\ diags = <<>>
    /\ bibfile = <<>>
    /\ errAt = NoRef

\* convertbibliography.py is not running
ConvIdle ==
    /\ record = <<>>
    /\ input = <<>>
    /\ first = <<>>
    /\ before = <<>>
    /\ applied = 0
    /\ step = 0
    /\ outcome = "none"

\* fixbibliography.py is not running
FixIdle ==
    /\ l = <<>>
    /\ l0 = <<>>
    /\ i = 0
    /\ j = 0

Init ==
    /\ entries \in TypedBibliographies \cup FieldBibliographies
    /\ orig = entries
    /\ expand \in BOOLEAN
    /\ pc = "validate"
    /\ idx = 1
    /\ crossrefs = {}
    /\ diags = <<>>
    /\ bibfile = entries
    /\ err = "none"
    /\ errAt = NoRef
    /\ ConvIdle
    /\ FixIdle

-----------------------------------------------------------------------------
(* The run of crossrefs.py *)

\* one iteration of the loop of lines 73-114
ValidateEntry ==
    /\ pc = "validate"
    /\ idx <= Len(order)
    /\ diags' = diags \o validation_messages(entries, order[idx])
    /\ idx' = idx + 1
    /\ UNCHANGED <<entries, orig, expand, pc, crossrefs, bibfile, err, errAt>>
    /\ UNCHANGED <<convVars, fixVars>>

\* if args.expand
ValidateDone ==
    /\ pc = "validate"
    /\ idx > Len(order)
    /\ pc' = IF expand THEN "expand" ELSE "done"
    /\ idx' = 1
    /\ UNCHANGED <<entries, orig, expand, crossrefs, diags, bibfile, err, errAt>>
    /\ UNCHANGED <<convVars, fixVars>>

\* one iteration of the loop of lines 127-141
ExpandEntry ==
    /\ pc = "expand"
    /\ idx <= Len(order)
    /\ LET entry == order[idx] IN
       IF ~Has(entries[entry], "crossref")
       THEN /\ idx' = idx + 1
            /\ UNCHANGED <<entries, pc, crossrefs, err, errAt>>
       ELSE
         LET crossref == entries[entry].val["crossref"] IN
         /\ crossrefs' = crossrefs \cup {crossref}
         /\ IF crossref \notin DOMAIN entries
            THEN \* entries[crossref] raises
                 /\ err' = "KeyError"
                 /\ errAt' = entry
                 /\ pc' = "raised"
                 /\ UNCHANGED <<entries, idx>>
            ELSE IF crossref = entry
            THEN LET c == copy_self(entries[entry], 1) IN
                 IF c.raised
                 THEN /\ entries' = [entries EXCEPT ![entry] = c.rec]
                      /\ err' = "RuntimeError"
                      /\ errAt' = entry
                      /\ pc' = "raised"
                      /\ UNCHANGED idx
                 ELSE /\ entries' = [entries EXCEPT ![entry] = Del(c.rec, "crossref")]
                      /\ idx' = idx + 1
                      /\ UNCHANGED <<pc, err, errAt>>
            ELSE /\ entries' =
                      [entries EXCEPT ![entry] =
                          Del(copy_fields(entries[entry], entries[crossref], 1),
                              "crossref")]
                 /\ idx' = idx + 1
                 /\ UNCHANGED <<pc, err, errAt>>
    /\ UNCHANGED <<orig, expand, diags, bibfile, convVars, fixVars>>

ExpandDone ==
    /\ pc = "expand"
    /\ idx > Len(order)
    /\ pc' = "prune"
    /\ UNCHANGED <<entries, orig, expand, idx, crossrefs, diags, bibfile, err, errAt>>
    /\ UNCHANGED <<convVars, fixVars>>

prune_none(es, consumed) == es

\* for key in crossrefs: del entries[key]
prune(es, consumed) == [k \in DOMAIN es \ consumed |-> es[k]]

\* the keys a crossref can hold, in the order sorted() gives them
SortedKeys == <<"k1", "k2", "k3", "zz">>

expanded_message(consumed) ==
    "I found the following crossrefs: "
        \o JoinStr(SelectSeq(SortedKeys, LAMBDA k : k \in consumed), ", ")
        \o ".I expanded them, and then deleted the originals."

\* lines 142-152: if crossrefs, delete them, write the file and say so.
\* Every consumed key is an entry here, for a crossref that names none has
\* ended the run in the expansion loop.
Prune ==
    /\ pc = "prune"
    /\ IF crossrefs # {}
       THEN /\ entries' = prune(entries, crossrefs)
            /\ bibfile' = entries'
            /\ diags' = Append(diags, expanded_message(crossrefs))
       ELSE UNCHANGED <<entries, bibfile, diags>>
    /\ pc' = "done"
    /\ UNCHANGED <<orig, expand, idx, crossrefs, err, errAt, convVars, fixVars>>

Next ==
    \/ ValidateEntry
    \/ ValidateDone
    \/ ExpandEntry
    \/ ExpandDone
    \/ Prune

Spec == Init /\ [][Next]_vars

-----------------------------------------------------------------------------
(* Properties of crossrefs.py *)

Pos(k) == CHOOSE n \in 1..Len(order) : order[n] = k

\* the validation loop has passed entry k
Validated(k) == pc # "validate" \/ Pos(k) < idx

\* the expansion loop has passed entry k without raising
Expanded(k) ==
    /\ expand
    /\ \/ pc \in {"prune", "done"}
       \/ pc \in {"expand", "raised"} /\ Pos(k) < idx

\* k was parsed with a crossref field
Refers(k) == Has(orig[k], "crossref")

Target(k) == orig[k].val["crossref"]

\* R was parsed with a crossref to an entry T that carries no crossref
RefersToPlain(R, T) ==
    /\ Refers(R)
    /\ Target(R) = T
    /\ T \in Keys
    /\ ~Refers(T)

NotCopied ==
    {"id", "type", "read", "bdsk-file-1", "doi", "date-added", "date-modified",
     "title", "subtitle"}

KeepsOwn(R) ==
    \A f \in NotCopied :
        /\ Has(entries[R], f) <=> Has(orig[R], f)
        /\ Has(orig[R], f) => entries[R].val[f] = orig[R].val[f]

HoldsValue(R, f, v) == Has(entries[R], f) /\ entries[R].val[f] = v

\* C1 as stated: after the expansion of R, which references T, R holds T's
\* value for every field of T outside NotCopied, R's booktitle is T's title
\* and R's booksubtitle is T's subtitle, and R's own NotCopied fields are as
\* they were parsed.
C1_CopyRuleAsStated ==
    \A R \in DOMAIN entries : \A T \in Keys :
        (Expanded(R) /\ RefersToPlain(R, T)) =>
            /\ \A f \in DOMAIN orig[T].val \ NotCopied :
                   HoldsValue(R, f, orig[T].val[f])
            /\ Has(orig[T], "title") =>
                   HoldsValue(R, "booktitle", orig[T].val["title"])
            /\ Has(orig[T], "subtitle") =>
                   HoldsValue(R, "booksubtitle", orig[T].val["subtitle"])
            /\ KeepsOwn(R)

FieldPos(r, f) == CHOOSE n \in 1..Len(r.keys) : r.keys[n] = f

\* the field of t whose value an expansion leaves under the name dest: for
\* booktitle (booksubtitle) the later, in t's field order, of t's title
\* (subtitle) and t's own booktitle (booksubtitle)
LastWriter(t, from, dest) ==
    IF Has(t, from) /\ Has(t, dest)
    THEN IF FieldPos(t, from) > FieldPos(t, dest) THEN from ELSE dest
    ELSE IF Has(t, from) THEN from ELSE dest

Renamed == [booktitle |-> "title", booksubtitle |-> "subtitle"]

\* C1 as amended: as C1, except that when T holds both title and booktitle
\* (subtitle and booksubtitle), R's booktitle (booksubtitle) is the value of
\* the one of the two that comes later in T's field order.
C1_CopyRule ==
    \A R \in DOMAIN entries : \A T \in Keys :
        (Expanded(R) /\ RefersToPlain(R, T)) =>
            /\ \A f \in DOMAIN orig[T].val \ (NotCopied \cup DOMAIN Renamed) :
                   HoldsValue(R, f, orig[T].val[f])
            /\ \A dest \in DOMAIN Renamed :
                   (Has(orig[T], Renamed[dest]) \/ Has(orig[T], dest)) =>
                       HoldsValue(R, dest,
                           orig[T].val[LastWriter(orig[T], Renamed[dest], dest)])
            /\ KeepsOwn(R)

\* R, holding a publisher and a doi of its own, has been expanded from T,
\* which holds a title, a publisher and a doi
C1_Witness ==
    \E R \in DOMAIN entries : \E T \in Keys :
        /\ pc = "done"
        /\ Expanded(R)
        /\ RefersToPlain(R, T)
        /\ Has(orig[R], "publisher") /\ Has(orig[R], "doi")
        /\ Has(orig[T], "publisher") /\ Has(orig[T], "doi")
        /\ Has(orig[T], "title")
        /\ entries[R].val["publisher"] = orig[T].val["publisher"]

AllTargetsExist == \A k \in Keys : Refers(k) => Target(k) \in Keys

Consumed == {Target(k) : k \in {q \in Keys : Refers(q)}}

\* C2: when every crossref names an entry and the expand phase has finished,
\* no entry left carries a crossref field and no consumed key is left.
C2_ExpandPostcondition ==
    (expand /\ pc = "done" /\ AllTargetsExist) =>
        /\ \A k \in DOMAIN entries : ~Has(entries[k], "crossref")
        /\ Consumed \cap DOMAIN entries = {}
        /\ DOMAIN entries = Keys \ Consumed

\* two entries referenced the same third one, and the phase has finished
C2_Witness ==
    /\ expand /\ pc = "done" /\ AllTargetsExist
    /\ \E R1 \in Keys : \E R2 \in Keys \ {R1} : \E T \in Keys \ {R1, R2} :
           /\ Refers(R1) /\ Refers(R2)
           /\ Target(R1) = T /\ Target(R2) = T
           /\ R1 \in DOMAIN entries /\ R2 \in DOMAIN entries

Values(r) == {r.val[f] : f \in DOMAIN r.val}

\* C3: when R references T and T references U, every value R holds after its
\* expansion is a value R or T was parsed with, wherever T stands in the file.
C3_OneLevelDeep ==
    \A R \in DOMAIN entries : \A T \in Keys \ {R} : \A U \in Keys \ {R, T} :
        (/\ Expanded(R)
         /\ Refers(R) /\ Target(R) = T
         /\ Refers(T) /\ Target(T) = U) =>
            Values(entries[R]) \subseteq Values(orig[R]) \cup Values(orig[T])

\* the "not found" line of entry k
NotFoundReported(k) ==
    \E n \in 1..Len(diags) : diags[n] = Target(k) \o " referenced by " \o k \o " was not found."

\* C4: an entry whose crossref names no entry is reported as not found once
\* the validation has passed it, and no run is ended by an error at it.
C4_MissingTargetNonFatal ==
    \A k \in Keys :
        (Refers(k) /\ Target(k) \notin Keys) =>
            /\ Validated(k) => NotFoundReported(k)
            /\ errAt # k

AllowedText ==
    [inbook        |-> "book or mvbook",
     incollection  |-> "collection or mvcollection",
     inproceedings |-> "proceedings"]

AllowedSet ==
    [inbook        |-> {"book", "mvbook"},
     incollection  |-> {"collection", "mvcollection"},
     inproceedings |-> {"proceedings"}]

MismatchLine(T, R, ty, text) ==
    "The type of " \o T \o " referenced by " \o R \o " is " \o ty
        \o ". It should probably be " \o text \o "."

\* every line that reports a mismatch between R and T
MismatchLines ==
    [T \in Keys, R \in Keys |->
        {MismatchLine(T, R, ty, AllowedText[a]) :
            ty \in Types, a \in DOMAIN AllowedText}]

UnexpectedLine(R, ty) ==
    "The type of " \o R \o " is " \o ty
        \o ". That's not one of the types expected to have a crossref, which are: "
        \o "inbook, incollection, or inproceedings."

TypeOf(k) == orig[k].val["type"]

\* C5: once the validation has passed R, which references the entry T, a
\* mismatch line for R and T is printed exactly when R is an inbook, an
\* incollection or an inproceedings and T's type is not allowed for it, and
\* that line lists the allowed types as "a" or "a or b"; a list of three is
\* printed "a, b, or c".
C5_TypeCompatibility ==
    \A R \in Keys :
        (Validated(R) /\ Refers(R)) =>
            /\ Target(R) \in Keys =>
                  MismatchLines[Target(R), R] \cap Range(diags) =
                      IF /\ TypeOf(R) \in DOMAIN AllowedSet
                         /\ TypeOf(Target(R)) \notin AllowedSet[TypeOf(R)]
                      THEN {MismatchLine(Target(R), R, TypeOf(Target(R)),
                                         AllowedText[TypeOf(R)])}
                      ELSE {}
            /\ TypeOf(R) \notin DOMAIN AllowedSet =>
                  UnexpectedLine(R, TypeOf(R)) \in Range(diags)

\* an inbook that references an article has been reported
C5_Witness ==
    \E R \in Keys :
        /\ Validated(R) /\ Refers(R) /\ Target(R) \in Keys
        /\ TypeOf(R) = "inbook" /\ TypeOf(Target(R)) = "article"
        /\ MismatchLine(Target(R), R, "article", "book or mvbook") \in Range(diags)

-----------------------------------------------------------------------------
(* Python strings: a str is the sequence of its characters *)

Whitespace == {" ", "\t", "\n", "\r"}

LowerLetters == <<"a", "b", "c", "d", "e", "f", "g", "h", "i", "j", "k", "l", "m", "n", "o", "p", "q", "r", "s", "t", "u", "v", "w", "x", "y", "z">>

UpperLetters == <<"A", "B", "C", "D", "E", "F", "G", "H", "I", "J", "K", "L", "M", "N", "O", "P", "Q", "R", "S", "T", "U", "V", "W", "X", "Y", "Z">>

Digits == {"0", "1", "2", "3", "4", "5", "6", "7", "8", "9"}

\* the characters \w matches, among the ASCII ones
WordChars == Range(LowerLetters) \cup Range(UpperLetters) \cup Digits \cup {"_"}

RECURSIVE Flatten(_)
\* ''.join(parts)
Flatten(parts) ==
    IF parts = <<>> THEN <<>> ELSE Head(parts) \o Flatten(Tail(parts))

RECURSIVE LStrip(_)
LStrip(s) ==
    IF s # <<>> /\ Head(s) \in Whitespace THEN LStrip(Tail(s)) ELSE s

RECURSIVE RStrip(_)
RStrip(s) ==
    IF s # <<>> /\ s[Len(s)] \in Whitespace
    THEN RStrip(SubSeq(s, 1, Len(s) - 1))
    ELSE s

\* s.strip()
Strip(s) == RStrip(LStrip(s))

\* s.find(c) for a character c: the index, from 0, of its first occurrence, or -1
Find(s, c) ==
    IF \E n \in 1..Len(s) : s[n] = c
    THEN (CHOOSE n \in 1..Len(s) : s[n] = c /\ \A m \in 1..(n - 1) : s[m] # c) - 1
    ELSE -1

DigitChars == <<"0", "1", "2", "3", "4", "5", "6", "7", "8", "9">>

RECURSIVE Str(_)
\* str(n) for an integer n >= 0
Str(n) ==
    IF n < 10 THEN <<DigitChars[n + 1]>>
    ELSE Str(n \div 10) \o <<DigitChars[(n % 10) + 1]>>

-----------------------------------------------------------------------------
(* fixbibliography.py *)

\* where $ matches: at the end, or before a newline that ends the string
AtDollar(rest) == rest = <<>> \/ rest = <<"\n">>

\* re.match('@\\w+{,{0,1}$', s): '@', one or more word characters, '{', at
\* most one ',', the end.  \w+ cannot give a character back to '{', so the
\* number n of word characters is the only choice.
match_header(s) ==
    \E n \in 1..Len(s) :
        /\ n + 2 <= Len(s)
        /\ s[1] = "@"
        /\ \A m \in 2..(n + 1) : s[m] \in WordChars
        /\ s[n + 2] = "{"
        /\ LET rest == SubSeq(s, n + 3, Len(s))
           IN  \/ AtDollar(rest)
               \/ rest # <<>> /\ Head(rest) = "," /\ AtDollar(Tail(rest))

\* l[j][:l[j].find('{')+1] + 'Foo' + str(i) + ',' + '\n'
dummy_key_line(line, n) ==
    SubSeq(line, 1, Find(line, "{") + 1) \o <<"F", "o", "o">> \o Str(n) \o <<",", "\n">>

next_key_stuck(n) == n

\* i += 1
next_key(n) == n + 1

\* at most this many lines are passed to fix_keys
MaxLines == 3

Bodies ==
    { <<>>,
      <<"@", "a", "{">>,
      <<"@", "a", "b", "{", ",">>,
      <<"@", "a", "_", "1", "{">>,
      <<"@", "{">>,
      <<"@", "a", "{", ",", ",">>,
      <<"@", "a", "{", "k", ",">>,
      <<"@", "a", " ", "{">>,
      <<"x", "@", "a", "{">>,
      <<"a", "=", "{", "x", "}", ",">>,
      <<"}">> }

\* the lines readlines() gives end with a newline, but for the last: each
\* body as a line, and some lines with whitespace around the body or no
\* newline
Lines ==
    {b \o <<"\n">> : b \in Bodies}
        \cup { <<"@", "a", "{">>,
               <<" ", "@", "a", "{", ",", " ", "\n">>,
               <<"\t", "@", "a", "b", "{", "\r", "\n">>,
               <<" ", "}">> }

LineLists == UNION {[1..n -> Lines] : n \in 0..MaxLines}

\* fix_keys(l) is called: i = 1, j = 0
InitFixKeys ==
    /\ l \in LineLists
    /\ l0 = l
    /\ i = 1
    /\ j = 0
    /\ pc = "fix_keys"
    /\ err = "none"
    /\ CrossIdle
    /\ ConvIdle

\* one iteration of the while loop; l[j] of the code is l[j + 1] here
FixKeysLine ==
    /\ pc = "fix_keys"
    /\ j < Len(l)
    /\ IF match_header(Strip(l[j + 1]))
       THEN /\ l' = [l EXCEPT ![j + 1] = dummy_key_line(l[j + 1], i)]
            /\ i' = next_key(i)
       ELSE UNCHANGED <<l, i>>
    /\ j' = j + 1
    /\ UNCHANGED <<pc, err, l0, crossVars, convVars>>

\* return l
FixKeysReturn ==
    /\ pc = "fix_keys"
    /\ j >= Len(l)
    /\ pc' = "returned"
    /\ UNCHANGED <<err, fixVars, crossVars, convVars>>

NextFixKeys == FixKeysLine \/ FixKeysReturn

SpecFixKeys == InitFixKeys /\ [][NextFixKeys]_vars

(* Properties of fix_keys *)

\* the line with the whitespace around it taken off
Trimmed(line) ==
    LET inner == {n \in 1..Len(line) : line[n] \notin Whitespace}
    IN  IF inner = {} THEN <<>>
        ELSE SubSeq(line, CHOOSE n \in inner : \A m \in inner : n <= m,
                          CHOOSE n \in inner : \A m \in inner : n >= m)

\* '@type{' or '@type{,' and nothing else
BareHeader(line) ==
    LET t == Trimmed(line)
        brace == IF t # <<>> /\ t[Len(t)] = "," THEN Len(t) - 1 ELSE Len(t)
    IN  /\ brace >= 3
        /\ t[1] = "@"
        /\ t[brace] = "{"
        /\ \A n \in 2..(brace - 1) : t[n] \in WordChars

\* how many of the first n lines passed in are bare headers
HeadersUpTo(n) == Cardinality({m \in 1..n : BareHeader(l0[m])})

\* the line up to and with its first '{'
UpToBrace(line) ==
    SubSeq(line, 1, CHOOSE n \in 1..Len(line) :
                        line[n] = "{" /\ \A m \in 1..(n - 1) : line[m] # "{")

FooKey == [n \in 1..9 |-> <<"F", "o", "o", DigitChars[n + 1], ",", "\n">>]

\* C10: fix_keys returns as many lines as it was passed; the k-th bare header
\* of the input is its text up to '{' followed by 'Foo', k, ',' and a newline;
\* every other line is as it was passed.
C10_FixKeys ==
    pc = "returned" =>
        /\ Len(l) = Len(l0)
        /\ \A n \in 1..Len(l0) :
              IF BareHeader(l0[n])
              THEN l[n] = UpToBrace(l0[n]) \o FooKey[HeadersUpTo(n)]
              ELSE l[n] = l0[n]

\* a bare header, a line that is none, and a second bare header
C10_Witness ==
    /\ pc = "returned"
    /\ Len(l0) = 3
    /\ BareHeader(l0[1]) /\ ~BareHeader(l0[2]) /\ BareHeader(l0[3])
    /\ l[3] = <<"@", "a", "b", "{">> \o FooKey[2]

-----------------------------------------------------------------------------
(* More of Python's str, for convertbibliography.py.  A character outside   *)
(* ASCII is written by its code point.                                      *)

EnDash == "U+2013"

EmDash == "U+2014"

IndexIn(s, c) == CHOOSE n \in 1..Len(s) : s[n] = c

IsLower(c) == c \in Range(LowerLetters)

IsUpper(c) == c \in Range(UpperLetters)

IsLetter(c) == IsLower(c) \/ IsUpper(c)

ToUpper(c) == IF IsLower(c) THEN UpperLetters[IndexIn(LowerLetters, c)] ELSE c

ToLower(c) == IF IsUpper(c) THEN LowerLetters[IndexIn(UpperLetters, c)] ELSE c

\* s.lower()
Lower(s) == [n \in 1..Len(s) |-> ToLower(s[n])]

\* s.title(): a letter is upper case after a character that is no letter (or
\* at the start) and lower case after a letter
Title(s) ==
    [n \in 1..Len(s) |->
        IF n > 1 /\ IsLetter(s[n - 1]) THEN ToLower(s[n]) ELSE ToUpper(s[n])]

\* s[a-1:b], the part of s from its a-th to its b-th character that exists
Slice(s, a, b) ==
    SubSeq(s, IF a < 1 THEN 1 ELSE a, IF b > Len(s) THEN Len(s) ELSE b)

StartsWith(s, p) == Len(s) >= Len(p) /\ SubSeq(s, 1, Len(p)) = p

EndsWith(s, p) == Len(s) >= Len(p) /\ SubSeq(s, Len(s) - Len(p) + 1, Len(s)) = p

\* p in s, for a string p
Contains(s, p) == \E n \in 1..(Len(s) + 1) : StartsWith(SubSeq(s, n, Len(s)), p)

RECURSIVE SplitWs(_)
\* s.split(): the runs of characters that are no whitespace
SplitWs(s) ==
    LET t == LStrip(s)
        stops == {n \in 1..Len(t) : t[n] \in Whitespace}
        stop == IF stops = {} THEN Len(t) + 1
                ELSE CHOOSE n \in stops : \A m \in stops : n <= m
    IN  IF t = <<>> THEN <<>>
        ELSE <<SubSeq(t, 1, stop - 1)>> \o SplitWs(SubSeq(t, stop, Len(t)))

RECURSIVE SplitOn(_, _)
\* s.split(sep) for a string sep that is not empty
SplitOn(s, sep) ==
    LET hits == {n \in 1..Len(s) : StartsWith(SubSeq(s, n, Len(s)), sep)}
        hit == CHOOSE n \in hits : \A m \in hits : n <= m
    IN  IF hits = {} THEN <<s>>
        ELSE <<SubSeq(s, 1, hit - 1)>>
                 \o SplitOn(SubSeq(s, hit + Len(sep), Len(s)), sep)

RECURSIVE Join(_, _)
\* sep.join(parts)
Join(parts, sep) ==
    IF parts = <<>> THEN <<>>
    ELSE IF Len(parts) = 1 THEN parts[1]
    ELSE parts[1] \o sep \o Join(Tail(parts), sep)

\* the wildcard '.' of a pattern: any character but a newline
AnyChar == "ANY"

MatchesChar(p, c) == IF p = AnyChar THEN c # "\n" ELSE p = c

\* the pattern, a sequence of characters and wildcards, matches at the start
MatchesAt(s, pat) ==
    /\ Len(s) >= Len(pat)
    /\ \A n \in 1..Len(pat) : MatchesChar(pat[n], s[n])

RECURSIVE ReSub(_, _, _)
\* re.sub(pat, repl, s) for a pattern that is a sequence of characters and
\* wildcards, not empty: the matches are taken from the left and do not
\* overlap
ReSub(pat, repl, s) ==
    IF s = <<>> THEN <<>>
    ELSE IF MatchesAt(s, pat)
         THEN repl \o ReSub(pat, repl, SubSeq(s, Len(pat) + 1, Len(s)))
         ELSE <<Head(s)>> \o ReSub(pat, repl, Tail(s))

-----------------------------------------------------------------------------
(* convertbibliography.py *)

words_to_numerals ==
    (<<"f", "i", "r", "s", "t">> :> <<"1">>) @@ (<<"s", "e", "c", "o", "n", "d">> :> <<"2">>) @@ (<<"t", "h", "i", "r", "d">> :> <<"3">>)
        @@ (<<"f", "o", "u", "r", "t", "h">> :> <<"4">>) @@ (<<"f", "i", "f", "t", "h">> :> <<"5">>)
        @@ (<<"s", "i", "x", "t", "h">> :> <<"6">>) @@ (<<"s", "e", "v", "e", "n", "t", "h">> :> <<"7">>)
        @@ (<<"e", "i", "g", "h", "t", "h">> :> <<"8">>) @@ (<<"n", "i", "n", "t", "h">> :> <<"9">>)
        @@ (<<"t", "e", "n", "t", "h">> :> <<"1", "0">>)

braces(s) ==
    LET opened == IF ~StartsWith(s, <<"{">>) THEN <<"{">> \o s ELSE s
    IN  IF ~EndsWith(opened, <<"}">>) THEN opened \o <<"}">> ELSE opened

\* re.match('and', x) matches every x that starts with 'and'
title_name(name) ==
    LET words == SplitWs(name)
    IN  Join([n \in 1..Len(words) |->
                 IF ~StartsWith(words[n], <<"a", "n", "d">>) THEN Title(words[n])
                 ELSE words[n]],
             <<" ">>)

\* the dots of the pattern 'http://dx.doi.org/' match any character
resolver_pattern ==
    <<"h", "t", "t", "p", ":", "/", "/", "d", "x">> \o <<AnyChar>> \o <<"d", "o", "i">> \o <<AnyChar>> \o <<"o", "r", "g", "/">>

remove_resolver(doi) == ReSub(resolver_pattern, <<>>, doi)

RECURSIVE hyphen_runs(_)
\* re.sub('-+', '--', s)
hyphen_runs(s) ==
    IF s = <<>> THEN <<>>
    ELSE IF Head(s) = "-"
         THEN LET others == {n \in 1..Len(s) : s[n] # "-"}
                  run == IF others = {} THEN Len(s)
                         ELSE (CHOOSE n \in others : \A m \in others : n <= m) - 1
              IN  <<"-", "-">> \o hyphen_runs(SubSeq(s, run + 1, Len(s)))
         ELSE <<Head(s)>> \o hyphen_runs(Tail(s))

\* the update of one field that is present
Update(r, f, v) == [keys |-> r.keys, val |-> [r.val EXCEPT ![f] = v]]

non_page_hyphens(r) ==
    LET r1 == IF Has(r, "volume")
              THEN Update(r, "volume", hyphen_runs(r.val["volume"])) ELSE r
        r2 == IF Has(r1, "issue")
              THEN Update(r1, "issue", hyphen_runs(r1.val["issue"])) ELSE r1
    IN  IF Has(r2, "number")
        THEN Update(r2, "number", hyphen_runs(r2.val["number"])) ELSE r2

dashes_value(v) ==
    ReSub(<<EmDash>>, <<"-", "-", "-">>, ReSub(<<EnDash>>, <<"-", "-">>, v))

dashes_fields(r) == DOMAIN r.val

\* for field in record: every key of the dict, id and type among them
dashes(r) ==
    [keys |-> r.keys,
     val  |-> [f \in DOMAIN r.val |->
                 IF f \in dashes_fields(r) THEN dashes_value(r.val[f])
                 ELSE r.val[f]]]

strip_doi(r) ==
    IF Has(r, "doi") THEN Update(r, "doi", remove_resolver(r.val["doi"])) ELSE r

titlecase_name(r) ==
    LET r1 == IF Has(r, "author")
              THEN Update(r, "author", title_name(r.val["author"])) ELSE r
    IN  IF Has(r1, "editor")
        THEN Update(r1, "editor", title_name(r1.val["editor"])) ELSE r1

\* re.search('and', ...)
publisher(r) ==
    IF Has(r, "publisher") /\ Contains(r.val["publisher"], <<"a", "n", "d">>)
    THEN Update(r, "publisher", braces(r.val["publisher"]))
    ELSE r

OrdinalSuffixes == {<<"s", "t">>, <<"n", "d">>, <<"r", "d">>, <<"t", "h">>}

\* re.search('\d+(st|nd|rd|th)', s)
has_ordinal(s) ==
    \E n \in 1..Len(s) :
        s[n] \in Digits /\ Slice(s, n + 1, n + 2) \in OrdinalSuffixes

RECURSIVE drop_suffixes(_)
\* re.sub('(st|nd|rd|th)', '', s)
drop_suffixes(s) ==
    IF s = <<>> THEN <<>>
    ELSE IF Slice(s, 1, 2) \in OrdinalSuffixes
         THEN drop_suffixes(SubSeq(s, 3, Len(s)))
         ELSE <<Head(s)>> \o drop_suffixes(Tail(s))

edition(r) ==
    IF ~Has(r, "edition") THEN r
    ELSE LET e == Strip(Lower(r.val["edition"]))
         IN  IF e \in DOMAIN words_to_numerals
             THEN Update(r, "edition", words_to_numerals[e])
             ELSE IF has_ordinal(e)
                  THEN Update(r, "edition", drop_suffixes(e))
                  ELSE r

journaltitle(r) ==
    IF Has(r, "journal")
    THEN Del(Set(r, "journaltitle", r.val["journal"]), "journal")
    ELSE r

join_author(r) ==
    IF Has(r, "author")
    THEN Update(r, "author", Join(r.val["author"], <<" ", "a", "n", "d", " ">>))
    ELSE r

\* re.sub('\\\\&', 'and', ...): a backslash and '&'
remove_ampersand_value(v) == ReSub(<<"\\", "&">>, <<"a", "n", "d">>, v)

remove_ampersand(r) ==
    LET over(q, f) == IF Has(q, f)
                      THEN Update(q, f, remove_ampersand_value(q.val[f]))
                      ELSE q
    IN  over(over(over(over(r, "booktitle"), "journaltitle"), "subtitle"), "title")

escape_always(s, c) ==
    Flatten([n \in 1..Len(s) |-> IF s[n] = c THEN <<"\\", c>> ELSE <<s[n]>>])

\* re.sub('(?<!\\\\)c', '\c', s): a backslash before every c that has none
escape(s, c) ==
    Flatten([n \in 1..Len(s) |->
                IF s[n] = c /\ ~(n > 1 /\ s[n - 1] = "\\")
                THEN <<"\\", c>>
                ELSE <<s[n]>>])

list_of_characters == <<"&", "%", "_">>

escape_value(v) ==
    escape(escape(escape(v, list_of_characters[1]), list_of_characters[2]),
           list_of_characters[3])

\* for val in record: every key of the dict, id and type among them
escape_characters(r) ==
    [keys |-> r.keys, val |-> [f \in DOMAIN r.val |-> escape_value(r.val[f])]]

RECURSIVE drop_pp(_)
\* re.sub('[Pp]{1,2}\\.?', '', s): one or two of 'P' and 'p', as many as there
\* are, then a '.' if there is one; wherever they stand
drop_pp(s) ==
    IF s = <<>> THEN <<>>
    ELSE IF Head(s) \in {"P", "p"}
         THEN LET letters == IF Len(s) >= 2 /\ s[2] \in {"P", "p"} THEN 2 ELSE 1
                  dot == IF Len(s) > letters /\ s[letters + 1] = "." THEN 1 ELSE 0
              IN  drop_pp(SubSeq(s, letters + dot + 1, Len(s)))
         ELSE <<Head(s)>> \o drop_pp(Tail(s))

remove_pp(r) ==
    IF Has(r, "pages") THEN Update(r, "pages", Strip(drop_pp(r.val["pages"])))
    ELSE r

multivolume(r) ==
    IF r.val["type"] = <<"b", "o", "o", "k">>
    THEN IF Has(r, "volume") THEN Update(r, "type", <<"m", "v", "b", "o", "o", "k">>) ELSE r
    ELSE IF r.val["type"] = <<"c", "o", "l", "l", "e", "c", "t", "i", "o", "n">>
         THEN IF Has(r, "volume") THEN Update(r, "type", <<"m", "v", "c", "o", "l", "l", "e", "c", "t", "i", "o", "n">>) ELSE r
         ELSE r

\* what the request to the CrossRef API can come to
Outcomes ==
    { [kind |-> "ConnectionError"],
      [kind |-> "status", ok |-> FALSE],
      [kind |-> "status", ok |-> TRUE, body |-> "no results"],
      [kind |-> "status", ok |-> TRUE, body |-> "not JSON"],
      [kind |-> "status", ok |-> TRUE, body |-> "match",
       doi |-> <<"h", "t", "t", "p", ":", "/", "/", "d", "x", ".", "d", "o", "i", ".", "o", "r", "g", "/", "1", "0", ".", "1", "/", "x">>] }

NoRequest == [kind |-> "no request"]

\* the search term: the title, then a space and the author
query(r) ==
    (IF Has(r, "title") THEN r.val["title"] ELSE <<>>)
        \o (IF Has(r, "author") THEN <<" ">> \o r.val["author"] ELSE <<>>)

\* whether get_doi sends a request
get_doi_asks(r) ==
    r.val["type"] = <<"a", "r", "t", "i", "c", "l", "e">> /\ ~Has(r, "doi") /\ query(r) # <<>>

\* get_doi when its request, if it sends one, comes to o:
\* [rec |-> the record, printed |-> the lines printed, raised |-> the
\* exception that leaves get_doi, or "none"].  A ConnectionError is caught.
\* With an OK status line 157 evaluates hodgson.remove_resolver before
\* r.json(): the module defines and imports no name hodgson, so this raises
\* NameError whatever the body is, and the handler of line 160 catches
\* IndexError only.
get_doi(r, o) ==
    IF ~get_doi_asks(r)
    THEN [rec |-> r, printed |-> <<>>, raised |-> "none"]
    ELSE IF o.kind = "ConnectionError"
    THEN [rec |-> r,
          printed |-> << <<"I couldn't get a DOI for record", r.val["id"]>> >>,
          raised |-> "none"]
    ELSE IF ~o.ok
    THEN [rec |-> r,
          printed |-> << <<"I got status code", "not OK", r.val["id"]>> >>,
          raised |-> "none"]
    ELSE [rec |-> r,
          printed |-> << <<"I got status code", "OK", r.val["id"]>> >>,
          raised |-> "NameError"]

-----------------------------------------------------------------------------
(* The functions customizations takes from the libraries bibtexparser and   *)
(* titlecase, as far as the records used here exercise them.  Their code is *)
(* not part of the scripts.                                                 *)

\* bibtexparser's getnames for one name: 'Last, First' stays, 'First Last'
\* is turned round.  (No name used here has a 'jr' or a 'van'.)
getname(name) ==
    IF Contains(name, <<",">>)
    THEN LET cut == Find(name, ",") + 1
         IN  Strip(SubSeq(name, 1, cut - 1)) \o <<",", " ">>
                 \o Join(SplitWs(SubSeq(name, cut + 1, Len(name))), <<" ">>)
    ELSE LET words == SplitWs(name)
         IN  words[Len(words)] \o <<",", " ">>
                 \o Join(SubSeq(words, 1, Len(words) - 1), <<" ">>)

\* bibtexparser.customization.author: the author string becomes the list of
\* its names; an empty author is deleted
author(r) ==
    IF ~Has(r, "author") THEN r
    ELSE IF r.val["author"] = <<>> THEN Del(r, "author")
    ELSE LET names == SelectSeq(SplitOn(r.val["author"], <<" ", "a", "n", "d", " ">>),
                                LAMBDA x : Strip(x) # <<>>)
         IN  Update(r, "author", [n \in 1..Len(names) |-> getname(Strip(names[n]))])

SmallWords == {<<"a">>, <<"a", "n">>, <<"a", "n", "d">>, <<"i", "n">>, <<"o", "f">>, <<"o", "n">>, <<"t", "h", "e">>}

\* the first letter of the word in upper case, when only punctuation stands
\* before it
cap_first(w) ==
    LET letters == {n \in 1..Len(w) : IsLetter(w[n])}
        at == CHOOSE n \in letters : \A m \in letters : n <= m
    IN  IF letters = {} \/ \E m \in 1..(at - 1) : w[m] \in Digits \cup {"\\"}
        THEN w
        ELSE [w EXCEPT ![at] = ToUpper(w[at])]

\* titlecase.titlecase for a line that is not in capitals throughout and
\* holds no slash, hyphenated word or Mc name: a small word is lower case
\* unless it is the first or the last word, a word with a capital after its
\* first letter or a dot inside is kept, every other word is capitalised
titlecase(s) ==
    LET words == SplitOn(s, <<" ">>)
        kept(w) == \/ \E n \in 2..Len(w) : IsUpper(w[n])
                   \/ \E n \in 2..(Len(w) - 1) : w[n] = "."
        one(n) == LET w == words[n] IN
                  IF kept(w) THEN w
                  ELSE IF Lower(w) \in SmallWords /\ n # 1 /\ n # Len(words)
                       THEN Lower(w)
                       ELSE cap_first(w)
    IN  Join([n \in 1..Len(words) |-> one(n)], <<" ">>)

case_title(r) ==
    LET over(q, f) == IF Has(q, f) THEN Update(q, f, titlecase(q.val[f])) ELSE q
    IN  over(over(over(r, "title"), "subtitle"), "booktitle")

\* bibtexparser.customization.convert_to_unicode: a value that holds a
\* backslash or a brace has its LaTeX sequences replaced by their
\* characters; of these the values used here hold \%, \& and \_ only
convert_to_unicode_value(v) ==
    IF Contains(v, <<"\\">>) \/ Contains(v, <<"{">>)
    THEN ReSub(<<"\\", "_">>, <<"_">>,
               ReSub(<<"\\", "&">>, <<"&">>, ReSub(<<"\\", "%">>, <<"%">>, v)))
    ELSE v

convert_to_unicode(r) ==
    [keys |-> r.keys,
     val  |-> [f \in DOMAIN r.val |-> convert_to_unicode_value(r.val[f])]]

\* s.strip('-')
RECURSIVE StripHyphens(_)
StripHyphens(s) ==
    IF s # <<>> /\ Head(s) = "-" THEN StripHyphens(Tail(s))
    ELSE IF s # <<>> /\ s[Len(s)] = "-" THEN StripHyphens(SubSeq(s, 1, Len(s) - 1))
    ELSE s

\* bibtexparser.customization.page_double_hyphen: the first and the last of
\* the parts between hyphens, joined by '--'
page_double_hyphen(r) ==
    IF Has(r, "pages") /\ Contains(r.val["pages"], <<"-">>)
    THEN LET p == SplitOn(r.val["pages"], <<"-">>)
         IN  Update(r, "pages",
                    StripHyphens(Strip(p[1])) \o <<"-", "-">>
                        \o StripHyphens(Strip(p[Len(p)])))
    ELSE r

-----------------------------------------------------------------------------
(* The records customizations is run on *)

\* at most this many fields besides id and type
MaxFields == 1

\* customizations is applied at most this many times to a record
MaxApplications == 2

Ids == {<<"k", "1">>, <<"a", "U+2013", "b">>, <<"d", "o", "e", "_", "2", "0", "2", "0">>}

RecordTypes == {<<"a", "r", "t", "i", "c", "l", "e">>, <<"b", "o", "o", "k">>, <<"c", "o", "l", "l", "e", "c", "t", "i", "o", "n">>}

FieldValues ==
    [volume    |-> {<<"3">>, <<"1", "-", "2">>, <<"1", "U+2013", "2">>, <<"1", "U+2014", "2">>, <<"1", "-", "-", "-", "2">>},
     number    |-> {<<"4", "-", "5">>},
     pages     |-> {<<"p", "p", ".", " ", "1", "-", "2">>, <<"P", ".", "3">>, <<"1", "0", "-", "-", "1", "2">>},
     title     |-> {<<"b", "i", "g", " ", "b", "o", "o", "k">>, <<"a", "r", "t", "s", " ", "\\", "&", " ", "c", "r", "a", "f", "t", "s">>, <<"5", "%", " ", "t", "a", "x">>},
     journal   |-> {<<"m", "i", "n", "d", " ", "&", " ", "l", "a", "n", "g", "u", "a", "g", "e">>},
     publisher |-> {<<"A", "l", "l", "e", "n", " ", "a", "n", "d", " ", "U", "n", "w", "i", "n">>, <<"A", "c", "m", "e">>},
     edition   |-> {<<"S", "e", "c", "o", "n", "d">>, <<"3", "r", "d">>, <<" ", "f", "i", "r", "s", "t", " ">>},
     doi       |-> {<<"h", "t", "t", "p", ":", "/", "/", "d", "x", ".", "d", "o", "i", ".", "o", "r", "g", "/", "1", "0", ".", "1", "/", "x">>, <<"1", "0", ".", "1", "/", "y">>},
     author    |-> {<<"d", "o", "e", ",", " ", "j", "a", "n", "e", " ", "a", "n", "d", " ", "s", "m", "i", "t", "h", ",", " ", "j", "o", "h", "n">>, <<"j", "a", "n", "e", " ", "d", "o", "e">>},
     editor    |-> {<<"D", "O", "E", ",", " ", "J", "O", "H", "N">>}]

FieldOrder ==
    <<"author", "editor", "title", "journal", "volume", "number", "pages",
      "publisher", "edition", "doi">>

\* the records with the fields fs, in the order of FieldOrder, then type and id
RecordsWith(fs) ==
    LET ks == SelectSeq(FieldOrder, LAMBDA f : f \in fs) \o <<"type", "id">>
    IN  {[keys |-> ks, val |-> v] :
            v \in {w \in [Range(ks) -> UNION {FieldValues[f] : f \in DOMAIN FieldValues}
                                          \cup Ids \cup RecordTypes] :
                      /\ w["id"] \in Ids
                      /\ w["type"] \in RecordTypes
                      /\ \A f \in fs : w[f] \in FieldValues[f]}}

Records ==
    UNION {RecordsWith(fs) :
              fs \in {x \in SUBSET DOMAIN FieldValues : Cardinality(x) <= MaxFields}}

InitPipeline ==
    /\ record \in Records
    /\ input = record
    /\ first = record
    /\ before = record
    /\ applied = 0
    /\ step = 1
    /\ outcome = NoRequest
    /\ pc = "customizations"
    /\ err = "none"
    /\ entries = <<>>
    /\ orig = <<>>
    /\ expand = FALSE
    /\ idx = 0
    /\ crossrefs = {}
    /\ diags = <<>>
    /\ bibfile = <<>>
    /\ errAt = NoRef
    /\ FixIdle

-----------------------------------------------------------------------------
(* customizations, line by line *)

\* the line of customizations that is the n-th step gives the record r
Line(n, r) ==
    /\ pc = "customizations"
    /\ step = n
    /\ before' = record
    /\ record' = r
    /\ step' = n + 1
    /\ UNCHANGED <<pc, err, input, first, applied, outcome, crossVars, fixVars>>

Author == Line(1, author(record))

JoinAuthor == Line(2, join_author(record))

TitlecaseName == Line(3, titlecase_name(record))

CaseTitle == Line(4, case_title(record))

ConvertToUnicode == Line(5, convert_to_unicode(record))

Journaltitle == Line(6, journaltitle(record))

NonPageHyphens == Line(7, non_page_hyphens(record))

Dashes == Line(8, dashes(record))

PageDoubleHyphen == Line(9, page_double_hyphen(record))

RemovePp == Line(10, remove_pp(record))

EscapeCharacters == Line(11, escape_characters(record))

RemoveAmpersand == Line(12, remove_ampersand(record))

Edition == Line(13, edition(record))

Multivolume == Line(14, multivolume(record))

Publisher == Line(15, publisher(record))

\* record = get_doi(record), the request coming to any of its outcomes
GetDoi ==
    /\ pc = "customizations"
    /\ step = 16
    /\ \E o \in IF get_doi_asks(record) THEN Outcomes ELSE {NoRequest} :
          LET g == get_doi(record, o) IN
          /\ outcome' = o
          /\ before' = record
          /\ record' = g.rec
          /\ diags' = diags \o g.printed
          /\ IF g.raised = "none"
             THEN /\ step' = step + 1
                  /\ UNCHANGED <<pc, err>>
             ELSE /\ err' = g.raised
                  /\ pc' = "raised"
                  /\ UNCHANGED step
    /\ UNCHANGED <<input, first, applied, fixVars>>
    /\ UNCHANGED <<entries, orig, expand, idx, crossrefs, bibfile, errAt>>

StripDoi == Line(17, strip_doi(record))

\* return record
Return ==
    /\ pc = "customizations"
    /\ step = 18
    /\ applied' = applied + 1
    /\ first' = IF applied = 0 THEN record ELSE first
    /\ pc' = "returned"
    /\ UNCHANGED <<err, record, input, before, step, outcome, crossVars, fixVars>>

\* the script is run again on the file it wrote: customizations is applied
\* to the record it returned
Reapply ==
    /\ pc = "returned"
    /\ applied < MaxApplications
    /\ pc' = "customizations"
    /\ step' = 1
    /\ UNCHANGED <<err, record, input, first, before, applied, outcome>>
    /\ UNCHANGED <<crossVars, fixVars>>

NextPipeline ==
    \/ Author
    \/ JoinAuthor
    \/ TitlecaseName
    \/ CaseTitle
    \/ ConvertToUnicode
    \/ Journaltitle
    \/ NonPageHyphens
    \/ Dashes
    \/ PageDoubleHyphen
    \/ RemovePp
    \/ EscapeCharacters
    \/ RemoveAmpersand
    \/ Edition
    \/ Multivolume
    \/ Publisher
    \/ GetDoi
    \/ StripDoi
    \/ Return
    \/ Reapply

SpecPipeline == InitPipeline /\ [][NextPipeline]_vars

(* Properties of customizations *)

\* C6: a second application of customizations, to the record the first one
\* returned, returns that record again.
C6_PipelineIdempotent ==
    (pc = "returned" /\ applied >= 2) => record.val = first.val

\* C7: the record customizations returns has the id of the record passed in.
C7_IdPreserved ==
    (pc = "returned" /\ applied = 1) => record.val["id"] = input.val["id"]

\* get_doi has just run on the record before
GetDoiRan ==
    \/ pc = "raised" /\ step = 16
    \/ pc = "customizations" /\ step = 17

\* C9: whatever the request comes to, get_doi raises nothing; on a match for
\* an article without doi the doi is the identifier without its resolver, and
\* otherwise the record is as it was.
C9_GetDoiBestEffort ==
    GetDoiRan =>
        /\ err = "none"
        /\ IF outcome.kind = "status" /\ outcome.ok /\ outcome.body = "match"
           THEN record.val = Set(before, "doi", <<"1", "0", ".", "1", "/", "x">>).val
           ELSE record = before

-----------------------------------------------------------------------------
(* escape_characters on its own *)

\* the values of the title are the strings of at most this many characters
MaxLen == 3

\* the three reserved characters, the backslash and an ordinary character
EscAlphabet == {"&", "%", "_", "\\", "a"}

EscTitles == UNION {[1..n -> EscAlphabet] : n \in 0..MaxLen}

EscNotes == {<<"5", "0", "%", " ", "o", "f", "f">>,
             <<"R", "\\", "&", "D", " ", "a", "_", "b">>}

EscRecords ==
    {[keys |-> <<"title", "note", "type", "id">>,
      val |-> [title |-> t, note |-> n, type |-> <<"b", "o", "o", "k">>,
               id |-> <<"k", "1">>]] : t \in EscTitles, n \in EscNotes}

InitEscape ==
    /\ record \in EscRecords
    /\ input = record
    /\ first = record
    /\ before = record
    /\ applied = 0
    /\ step = 0
    /\ outcome = NoRequest
    /\ pc = "escape_characters"
    /\ err = "none"
    /\ CrossIdle
    /\ FixIdle

\* record = escape_characters(record), on the record as read and then on
\* what escape_characters returned
EscapeRecord ==
    /\ pc = "escape_characters"
    /\ applied < MaxApplications
    /\ before' = record
    /\ record' = escape_characters(record)
    /\ first' = IF applied = 0 THEN escape_characters(record) ELSE first
    /\ applied' = applied + 1
    /\ UNCHANGED <<pc, err, input, step, outcome, crossVars, fixVars>>

NextEscape == EscapeRecord

SpecEscape == InitEscape /\ [][NextEscape]_vars

(* Properties of escape_characters *)

Reserved == {"&", "%", "_"}

\* the reserved character at n has a backslash just before it
Preceded(s, n) == n > 1 /\ s[n - 1] = "\\"

\* every reserved character of s has a backslash just before it
AllPreceded(s) == \A n \in 1..Len(s) : s[n] \in Reserved => Preceded(s, n)

\* s with one backslash put before each reserved character that has none,
\* and nothing else changed
BackslashAdded(s) ==
    Flatten([n \in 1..Len(s) |->
                IF s[n] \in Reserved /\ ~Preceded(s, n)
                THEN <<"\\", s[n]>>
                ELSE <<s[n]>>])

FieldsOf(r) == DOMAIN r.val \ {"id", "type"}

\* C8: after escape_characters every '&', '%' and '_' of every field value
\* has a backslash just before it; the value is the one read with a backslash
\* put before the occurrences that had none, those that had one being left
\* as they were; and a second application returns what the first returned.
C8_EscapeCompleteIdempotent ==
    (pc = "escape_characters" /\ applied >= 1) =>
        /\ \A f \in FieldsOf(record) :
              /\ AllPreceded(record.val[f])
              /\ record.val[f] = BackslashAdded(input.val[f])
        /\ applied >= 2 => record = first

\* escape_characters has been applied twice to a record with '50% off' and
\* with a title where one reserved character is escaped and the next is not
C8_Witness ==
    /\ pc = "escape_characters"
    /\ applied = 2
    /\ input.val["note"] = <<"5", "0", "%", " ", "o", "f", "f">>
    /\ record.val["note"] = <<"5", "0", "\\", "%", " ", "o", "f", "f">>
    /\ input.val["title"] = <<"\\", "&", "%">>
    /\ record.val["title"] = <<"\\", "&", "\\", "%">>

-----------------------------------------------------------------------------
(* titlecase_name on its own *)

\* a name has at most this many whitespace-delimited tokens
MaxTokens == 3

NameTokens == {<<"d", "o", "e", ",">>, <<"j", "a", "n", "e">>, <<"a", "n", "d">>, <<"a", "n", "d", "e", "r", "s", "o", "n", ",">>, <<"S", "M", "I", "T", "H">>, <<"A", "N", "D">>}

Names ==
    {Join(ts, <<" ">>) : ts \in UNION {[1..n -> NameTokens] : n \in 0..MaxTokens}}
        \cup {<<"d", "o", "e", ",", " ", "j", "a", "n", "e", " ", "a", "n", "d", " ", "s", "m", "i", "t", "h", ",", " ", "j", "o", "h", "n">>}

Editors == {<<"D", "O", "E", ",", " ", "J", "O", "H", "N">>, <<"o", "'", "n", "e", "i", "l", ",", " ", " ", "a", "n", "d", "y">>}

NameRecords ==
    {[keys |-> <<"author", "type", "id">>,
      val |-> [author |-> a, type |-> <<"b", "o", "o", "k">>, id |-> <<"k", "1">>]] : a \in Names}
        \cup
    {[keys |-> <<"author", "editor", "type", "id">>,
      val |-> [author |-> a, editor |-> e, type |-> <<"b", "o", "o", "k">>, id |-> <<"k", "1">>]] :
        a \in Names, e \in Editors}

InitTitleName ==
    /\ record \in NameRecords
    /\ input = record
    /\ first = record
    /\ before = record
    /\ applied = 0
    /\ step = 0
    /\ outcome = NoRequest
    /\ pc = "titlecase_name"
    /\ err = "none"
    /\ CrossIdle
    /\ FixIdle

\* record = titlecase_name(record)
TitlecaseNameRecord ==
    /\ pc = "titlecase_name"
    /\ before' = record
    /\ record' = titlecase_name(record)
    /\ first' = titlecase_name(record)
    /\ applied' = applied + 1
    /\ pc' = "returned"
    /\ UNCHANGED <<err, input, step, outcome, crossVars, fixVars>>

NextTitleName == TitlecaseNameRecord

SpecTitleName == InitTitleName /\ [][NextTitleName]_vars

(* Properties of titlecase_name *)

\* the tokens of name, each in title case but for the token 'and'
TokensTitleCased(name) ==
    LET words == SplitWs(name)
    IN  [n \in 1..Len(words) |->
            IF words[n] = <<"a", "n", "d">> THEN words[n] ELSE Title(words[n])]

\* C11: in the author and the editor that titlecase_name returns, every
\* whitespace-delimited token of the name passed in is in title case, whatever
\* its case was, but for the token 'and', which is as it was.
C11_NameTitleCased ==
    pc = "returned" =>
        \A f \in {"author", "editor"} \cap DOMAIN record.val :
            SplitWs(record.val[f]) = TokensTitleCased(input.val[f])

-----------------------------------------------------------------------------
(* Each normalizer of convertbibliography.py on its own.  A normalizer     *)
(* gives [rec |-> the record it returns, raised |-> the exception that    *)
(* leaves it, or "none"].                                                   *)

Returned(r) == [rec |-> r, raised |-> "none"]

booktitle(r) ==
    IF r.val["type"] = <<"b", "o", "o", "k">> /\ Has(r, "title")
    THEN Set(r, "booktitle", r.val["title"])
    ELSE r

\* if f in record: del record[f], for each f of fs
remove_fields(r, fs) ==
    [keys |-> SelectSeq(r.keys, LAMBDA f : f \notin fs),
     val  |-> [f \in DOMAIN r.val \ fs |-> r.val[f]]]

remove_abstract(r) == remove_fields(r, {"abstract"})

remove_ISSN(r) == remove_fields(r, {"issn"})

remove_ISBN(r) == remove_fields(r, {"isbn"})

remove_copyright(r) == remove_fields(r, {"copyright"})

remove_language(r) == remove_fields(r, {"language"})

remove_publisher(r) ==
    IF r.val["type"] = <<"a", "r", "t", "i", "c", "l", "e">> THEN remove_fields(r, {"publisher"}) ELSE r

remove_link(r) == remove_fields(r, {"link"})

jstor(r) ==
    remove_fields(r, {"jstor_articletype", "jstor_formatteddate", "jstor_issuetitle"})

remove_booktitle(r) == remove_fields(r, {"booktitle"})

\* l[0] of protect raises IndexError when s.split() is empty
protect_raises(s) == SplitWs(s) = <<>>

\* protect(s) for an s with a word: the first word, a space, and the other
\* words joined by spaces, those that start with a capital in braces
protect(s) ==
    LET words == SplitWs(s)
        rest == Tail(words)
    IN  words[1] \o <<" ">>
            \o Join([n \in 1..Len(rest) |->
                        IF IsUpper(rest[n][1]) THEN <<"{">> \o rest[n] \o <<"}">>
                        ELSE rest[n]],
                    <<" ">>)

RECURSIVE protect_fields(_, _)
\* title, subtitle and booktitle in turn; the fields before the one that
\* raises are already rewritten
protect_fields(r, fs) ==
    IF fs = <<>> THEN Returned(r)
    ELSE IF ~Has(r, Head(fs)) THEN protect_fields(r, Tail(fs))
    ELSE IF protect_raises(r.val[Head(fs)]) THEN [rec |-> r, raised |-> "IndexError"]
    ELSE protect_fields(Update(r, Head(fs), protect(r.val[Head(fs)])), Tail(fs))

protect_capitalisation(r) == protect_fields(r, <<"title", "subtitle", "booktitle">>)

\* join_author on an author that is a str: join iterates over its characters
join_author_of_str(r) ==
    IF Has(r, "author")
    THEN Update(r, "author",
                Join([n \in 1..Len(r.val["author"]) |-> <<r.val["author"][n]>>],
                     <<" ", "a", "n", "d", " ">>))
    ELSE r

\* the normalizers, in the order of the file; get_doi is apart, its result
\* depending on the request
Normalizers ==
    <<"non_page_hyphens", "dashes", "strip_doi", "get_doi", "titlecase_name",
      "publisher", "edition", "journaltitle", "case_title", "join_author",
      "booktitle", "remove_abstract", "remove_ISSN", "remove_ISBN",
      "remove_copyright", "remove_language", "remove_publisher", "remove_link",
      "remove_ampersand", "escape_characters", "jstor", "remove_pp",
      "protect_capitalisation", "multivolume", "remove_booktitle">>

\* what the normalizer gives for the record r
Normalized(name, r) ==
    CASE name = "non_page_hyphens" -> Returned(non_page_hyphens(r))
      [] name = "dashes" -> Returned(dashes(r))
      [] name = "strip_doi" -> Returned(strip_doi(r))
      [] name = "titlecase_name" -> Returned(titlecase_name(r))
      [] name = "publisher" -> Returned(publisher(r))
      [] name = "edition" -> Returned(edition(r))
      [] name = "journaltitle" -> Returned(journaltitle(r))
      [] name = "case_title" -> Returned(case_title(r))
      [] name = "join_author" -> Returned(join_author_of_str(r))
      [] name = "booktitle" -> Returned(booktitle(r))
      [] name = "remove_abstract" -> Returned(remove_abstract(r))
      [] name = "remove_ISSN" -> Returned(remove_ISSN(r))
      [] name = "remove_ISBN" -> Returned(remove_ISBN(r))
      [] name = "remove_copyright" -> Returned(remove_copyright(r))
      [] name = "remove_language" -> Returned(remove_language(r))
      [] name = "remove_publisher" -> Returned(remove_publisher(r))
      [] name = "remove_link" -> Returned(remove_link(r))
      [] name = "remove_ampersand" -> Returned(remove_ampersand(r))
      [] name = "escape_characters" -> Returned(escape_characters(r))
      [] name = "jstor" -> Returned(jstor(r))
      [] name = "remove_pp" -> Returned(remove_pp(r))
      [] name = "protect_capitalisation" -> protect_capitalisation(r)
      [] name = "multivolume" -> Returned(multivolume(r))
      [] name = "remove_booktitle" -> Returned(remove_booktitle(r))

\* the fields each normalizer reads or rewrites; dashes and escape_characters
\* go over every value
NormFields ==
    {"author", "editor", "title", "subtitle", "booktitle", "journal",
     "journaltitle", "volume", "issue", "number", "pages", "publisher",
     "edition", "doi", "abstract", "issn", "isbn", "copyright", "language",
     "link", "jstor_articletype", "jstor_formatteddate", "jstor_issuetitle"}

Targets ==
    [non_page_hyphens |-> {"volume", "issue", "number"},
     dashes |-> NormFields,
     strip_doi |-> {"doi"},
     get_doi |-> {"title", "author"},
     titlecase_name |-> {"author", "editor"},
     publisher |-> {"publisher"},
     edition |-> {"edition"},
     journaltitle |-> {"journal"},
     case_title |-> {"title", "subtitle", "booktitle"},
     join_author |-> {"author"},
     booktitle |-> {"title"},
     remove_abstract |-> {"abstract"},
     remove_ISSN |-> {"issn"},
     remove_ISBN |-> {"isbn"},
     remove_copyright |-> {"copyright"},
     remove_language |-> {"language"},
     remove_publisher |-> {"publisher"},
     remove_link |-> {"link"},
     remove_ampersand |-> {"booktitle", "journaltitle", "subtitle", "title"},
     escape_characters |-> NormFields,
     jstor |-> {"jstor_articletype", "jstor_formatteddate", "jstor_issuetitle"},
     remove_pp |-> {"pages"},
     protect_capitalisation |-> {"title", "subtitle", "booktitle"},
     multivolume |-> {"volume"},
     remove_booktitle |-> {"booktitle"}]

\* the values of the fields: the empty string, a single word, and others
NormValues == {<<>>, <<"W", "o", "r", "d">>, <<"a", " ", "B", "i", "g", " ", "b">>, <<"p", "p", ".", " ", "1", "-", "2">>, <<"x", " ", "\\", "&", " ", "y">>}

NormFieldOrder ==
    <<"author", "editor", "title", "subtitle", "booktitle", "journal",
      "journaltitle", "volume", "issue", "number", "pages", "publisher",
      "edition", "doi", "abstract", "issn", "isbn", "copyright", "language",
      "link", "jstor_articletype", "jstor_formatteddate", "jstor_issuetitle">>

NormIds == {<<"k", "1">>, <<"d", "o", "e", "_", "2", "0", "2", "0">>}

NormTypes == {<<"a", "r", "t", "i", "c", "l", "e">>, <<"b", "o", "o", "k">>}

NormRecordsWith(fs) ==
    LET ks == SelectSeq(NormFieldOrder, LAMBDA f : f \in fs) \o <<"type", "id">>
    IN  {[keys |-> ks, val |-> v] :
            v \in {w \in [Range(ks) -> NormValues \cup NormIds \cup NormTypes] :
                      /\ w["id"] \in NormIds
                      /\ w["type"] \in NormTypes
                      /\ \A f \in fs : w[f] \in NormValues}}

NormRecords ==
    UNION {NormRecordsWith(fs) :
              fs \in {x \in SUBSET NormFields : Cardinality(x) <= MaxFields}}

InitNormalizer ==
    /\ record \in NormRecords
    /\ input = record
    /\ first = record
    /\ before = record
    /\ applied = 0
    /\ step = 0
    /\ outcome = NoRequest
    /\ pc = "normalizer"
    /\ err = "none"
    /\ CrossIdle
    /\ FixIdle

\* the result g of the normalizer that stands n-th in Normalizers
Finish(n, g) ==
    /\ step' = n
    /\ before' = record
    /\ record' = g.rec
    /\ first' = g.rec
    /\ applied' = applied + 1
    /\ err' = g.raised
    /\ pc' = IF g.raised = "none" THEN "returned" ELSE "raised"
    /\ UNCHANGED <<input, crossVars, fixVars>>

\* record = normalizer(record), for a normalizer that sends no request
Normalize ==
    /\ pc = "normalizer"
    /\ \E n \in 1..Len(Normalizers) :
          /\ Normalizers[n] # "get_doi"
          /\ Finish(n, Normalized(Normalizers[n], record))
    /\ UNCHANGED outcome

\* record = get_doi(record), the request coming to any of its outcomes
NormalizeGetDoi ==
    /\ pc = "normalizer"
    /\ \E o \in IF get_doi_asks(record) THEN Outcomes ELSE {NoRequest} :
          LET g == get_doi(record, o) IN
          /\ outcome' = o
          /\ Finish(4, [rec |-> g.rec, raised |-> g.raised])

NextNormalizer == Normalize \/ NormalizeGetDoi

SpecNormalizer == InitNormalizer /\ [][NextNormalizer]_vars

(* Properties of the normalizers *)

\* C12: on a record with an id, a type and any strings for the fields it
\* has, every normalizer returns without raising, and returns the record as
\* it was when the record has none of the fields the normalizer works on.
C12_NormalizersTotal ==
    pc \in {"returned", "raised"} =>
        /\ err = "none"
        /\ Targets[Normalizers[step]] \cap DOMAIN input.val = {} => record = input

-----------------------------------------------------------------------------
(* remove_pp on its own *)

PagesAlphabet == {"p", "P", ".", "1", "-", " "}

\* the pages: every string of at most MaxLen characters, and some longer ones
PagesValues ==
    UNION {[1..n -> PagesAlphabet] : n \in 0..MaxLen}
        \cup {<<"p", "p", ".", " ", "1", "2", "-", "1", "4">>, <<"P", ".", " ", "3">>, <<"S", "1", "2", "-", "P", "1", "4">>, <<"1", "2", "-", "1", "4", " ", "p", "p", ".">>}

PagesRecords ==
    {[keys |-> <<"pages", "type", "id">>,
      val |-> [pages |-> p, type |-> <<"a", "r", "t", "i", "c", "l", "e">>, id |-> <<"k", "1">>]] :
        p \in PagesValues}

InitRemovePp ==
    /\ record \in PagesRecords
    /\ input = record
    /\ first = record
    /\ before = record
    /\ applied = 0
    /\ step = 0
    /\ outcome = NoRequest
    /\ pc = "remove_pp"
    /\ err = "none"
    /\ CrossIdle
    /\ FixIdle

\* record = remove_pp(record)
RemovePpRecord ==
    /\ pc = "remove_pp"
    /\ before' = record
    /\ record' = remove_pp(record)
    /\ first' = remove_pp(record)
    /\ applied' = applied + 1
    /\ pc' = "returned"
    /\ UNCHANGED <<err, input, step, outcome, crossVars, fixVars>>

NextRemovePp == RemovePpRecord

SpecRemovePp == InitRemovePp /\ [][NextRemovePp]_vars

(* Properties of remove_pp *)

\* s without the prefix it starts with: one or two of 'p' and 'P', and the
\* '.' after them if there is one
WithoutLeadingPrefix(s) ==
    IF s = <<>> \/ s[1] \notin {"p", "P"} THEN s
    ELSE LET letters == IF Len(s) >= 2 /\ s[2] \in {"p", "P"} THEN 2 ELSE 1
             dot == IF Len(s) > letters /\ s[letters + 1] = "." THEN 1 ELSE 0
         IN  SubSeq(s, letters + dot + 1, Len(s))

\* C13: the pages remove_pp returns are the pages passed in without their
\* leading 'p'/'pp' prefix (the prefix standing at the start of the value or
\* after its leading whitespace), trimmed; every character after the prefix
\* is kept, and pages without the prefix are only trimmed.
C13_OnlyLeadingPrefix ==
    pc = "returned" =>
        record.val["pages"] \in
            {Strip(WithoutLeadingPrefix(input.val["pages"])),
             Strip(WithoutLeadingPrefix(LStrip(input.val["pages"])))}

====
